---- MODULE Spec2Model ----
(***************************************************************************)
(* swisspeak: ASCII-grid utilities.  The model covers the peak-dominance   *)
(* computation of dominance.py (calculate_peak_dominance and               *)
(* adapt_value_based_on_dominance) and the run of its __main__, the grid   *)
(* reader read_ascii_matrix, the two grid writers write_ascii_matrix       *)
(* (integer and 3-decimal), combine_matrices of restrict.py,               *)
(* downsample_matrix of downsample.py, create_bitmap_from_matrix of        *)
(* convert_to_image.py and convert_png_to_ascii_matrix of parse_image.py.  *)
(*                                                                         *)
(* Numbers.  A cell value is a Python float.  It is represented by the    *)
(* integer count of 1/Scale units it holds (fixed point, four decimals),   *)
(* so that truncation to an integer and rounding to three decimals are     *)
(* both observable.  Num(n) is the float of the integer n.                 *)
(*                                                                         *)
(* Distances.  math.sqrt(n) of a small non-negative integer n is           *)
(* represented by n itself (the radicand): sqrt is strictly increasing and *)
(* correctly rounded, so comparing two such floats is comparing the        *)
(* radicands, and math.ceil of it is the least k with k*k >= n.            *)
(*                                                                         *)
(* Grids are 0-indexed as in the code: matrix[r][c] with r in 0..nrows-1.  *)
(***************************************************************************)
EXTENDS Integers, Sequences, FiniteSets, TLC

VARIABLES
    pc,                   \* position of the run
    matrix_data,          \* the input grid
    ncols,
    nrows,
    nodata_value,
    peak_row,
    peak_col,
    higher_border_cells,  \* list(higher_border_cells) of step 1
    output_matrix,        \* the grid calculate_peak_dominance returns, or NoGrid
    exit_status,          \* 0 while running or returned, 1 after exit(1)
    infile,               \* the lines of the file read_ascii_matrix reads
    outfile,              \* the lines write_ascii_matrix wrote, or NoFile
    readback,             \* what read_ascii_matrix returns for outfile, or NoGrid
    matrix_rows,          \* the identities of the row lists of matrix_data
    output_rows,          \* the identities of the row lists of output_matrix
    argv,                 \* sys.argv[1..] of the run
    matrix2_data,         \* the second grid of combine_matrices
    ncols2,
    nrows2,
    nodata_value2,
    factor,               \* the factor of downsample_matrix
    image,                \* the image read or created, or NoImage
    returned_header       \* the ncols, nrows and no-data value returned with a grid

heapVars == <<matrix_rows, output_rows>>

toolVars == <<argv, matrix2_data, ncols2, nrows2, nodata_value2, factor, image,
              returned_header>>

vars == <<pc, matrix_data, ncols, nrows, nodata_value, peak_row, peak_col,
          higher_border_cells, output_matrix, exit_status, infile, outfile, readback,
          matrix_rows, output_rows, argv, matrix2_data, ncols2, nrows2, nodata_value2,
          factor, image, returned_header>>

-----------------------------------------------------------------------------
(* Bounds of the model *)

\* exhaustive family: every grid of at most MaxCells cells
MaxCells == 5
\* block family: grids of up to BlockRows x BlockCols cells
BlockRows == 3
BlockCols == 4
\* border sets of at most MaxPermSize cells are listed in every order
MaxPermSize == 2
\* input files: a well-formed file with at most MaxDefects edits
MaxDefects == 1
\* written grids: every grid of at most MaxWriteCells cells
MaxWriteCells == 3

-----------------------------------------------------------------------------
(* Numbers *)

Scale == 10 * 1000

Num(n) == n * Scale

NoGrid == <<>>
NoFile == <<"none">>

Rows(nr) == 0 .. (nr - 1)
Cols(nc) == 0 .. (nc - 1)
Cells(nr, nc) == Rows(nr) \X Cols(nc)

\* no colour: a band below 0
NoKey == <<-1, -1, -1>>

NoImage == [mode |-> "none", size |-> <<0, 0>>, pixels |-> <<>>, transparency |-> NoKey]
NoHeader == <<>>

\* the variables of the other tools while one tool runs
IdleTools ==
    /\ argv = <<>>
    /\ matrix2_data = NoGrid
    /\ ncols2 = 0
    /\ nrows2 = 0
    /\ nodata_value2 = 0
    /\ factor = 0
    /\ image = NoImage
    /\ returned_header = NoHeader

-----------------------------------------------------------------------------
(* Row lists.  A grid is a list of row lists; each row list is an object   *)
(* with an identity, a positive integer.  rows[r] is the identity of the   *)
(* list that is row r of a grid.                                           *)

RowIds(rows) == { rows[r] : r \in DOMAIN rows }

\* the row lists of a grid handed to a function
InputRows(n) == [r \in Rows(n) |-> r + 1]

\* mutant: the result is built on the row lists of the input
ReuseRows(rows, n) == rows

\* [[... for _ in range(ncols)] for _ in range(nrows)]: n new row lists
AllocateRows(rows, n) ==
    LET used == RowIds(rows)
        top == IF used = {} THEN 0 ELSE CHOOSE x \in used : \A y \in used : y <= x
    IN  [r \in Rows(n) |-> top + 1 + r]

-----------------------------------------------------------------------------
(* Distance utilities *)

Abs(x) == IF x < 0 THEN -x ELSE x

manhattan_distance(p1, p2) == Abs(p2[1] - p1[1]) + Abs(p2[2] - p1[2])

\* mutant: the row difference is squared twice
euclidean_distance_row_twice(p1, p2) ==
    (p2[1] - p1[1]) * (p2[1] - p1[1]) + (p2[1] - p1[1]) * (p2[1] - p1[1])

\* the radicand of math.sqrt(...)
euclidean_distance(p1, p2) ==
    (p2[1] - p1[1]) * (p2[1] - p1[1]) + (p2[2] - p1[2]) * (p2[2] - p1[2])

\* math.ceil(math.sqrt(n))
math_ceil(n) == CHOOSE k \in 0 .. n : k * k >= n /\ \A j \in 0 .. n : j * j >= n => k <= j

-----------------------------------------------------------------------------
(* calculate_peak_dominance, step 1: the border of the higher regions *)

\* dr, dc
NeighborOffsets ==
    << <<-1, -1>>, <<-1, 0>>, <<-1, 1>>, <<0, -1>>,
       <<0, 1>>, <<1, -1>>, <<1, 0>>, <<1, 1>> >>

\* the guard of line 181, negated: the cell is strictly higher than the peak
IsHigherCell(m, nd, peak_value, r, c) ==
    ~(m[r][c] = nd \/ m[r][c] <= peak_value)

\* mutant: only the 4 edge neighbours are looked at
is_border_4(m, nc, nr, nd, peak_value, r, c) ==
    \E i \in {2, 4, 5, 7} :
        LET nbr == r + NeighborOffsets[i][1]
            nbc == c + NeighborOffsets[i][2]
        IN  \/ ~(0 <= nbr /\ nbr < nr /\ 0 <= nbc /\ nbc < nc)
            \/ (0 <= nbr /\ nbr < nr /\ 0 <= nbc /\ nbc < nc
                /\ (m[nbr][nbc] = nd \/ m[nbr][nbc] <= peak_value))

is_border(m, nc, nr, nd, peak_value, r, c) ==
    \E i \in 1 .. 8 :
        LET nbr == r + NeighborOffsets[i][1]
            nbc == c + NeighborOffsets[i][2]
        IN  \/ ~(0 <= nbr /\ nbr < nr /\ 0 <= nbc /\ nbc < nc)
            \/ (0 <= nbr /\ nbr < nr /\ 0 <= nbc /\ nbc < nc
                /\ (m[nbr][nbc] = nd \/ m[nbr][nbc] <= peak_value))

HigherBorderSet(m, nc, nr, nd, peak_value) ==
    { p \in Cells(nr, nc) :
        /\ IsHigherCell(m, nd, peak_value, p[1], p[2])
        /\ is_border(m, nc, nr, nd, peak_value, p[1], p[2]) }

\* list(set): the order of the list is not specified
Less(p, q) == p[1] < q[1] \/ (p[1] = q[1] /\ p[2] < q[2])

RECURSIVE Ascending(_)
Ascending(S) ==
    IF S = {} THEN <<>>
    ELSE LET p == CHOOSE x \in S : \A y \in S : x = y \/ Less(x, y)
         IN  <<p>> \o Ascending(S \ {p})

Reverse(s) == [i \in 1 .. Len(s) |-> s[Len(s) + 1 - i]]

Orderings(S) ==
    { s \in [1 .. Cardinality(S) -> S] : \A p \in S : \E i \in 1 .. Cardinality(S) : s[i] = p }

ListOfSet(S) ==
    IF Cardinality(S) <= MaxPermSize
    THEN Orderings(S)
    ELSE {Ascending(S), Reverse(Ascending(S))}

-----------------------------------------------------------------------------
(* adapt_value_based_on_dominance *)

\* mutant: a border cell the filter skips ends the scan (break for continue)
RECURSIVE ScanBorderBreaks(_, _, _, _, _)
ScanBorderBreaks(cell, dist_to_peak, manhattan_sup, border, i) ==
    IF i > Len(border) THEN TRUE
    ELSE IF manhattan_distance(cell, border[i]) > manhattan_sup
         THEN TRUE
         ELSE IF euclidean_distance(cell, border[i]) < dist_to_peak
              THEN FALSE
              ELSE ScanBorderBreaks(cell, dist_to_peak, manhattan_sup, border, i + 1)

\* mutant: a border cell at the distance of the peak ends the scan too
RECURSIVE ScanBorderTieEnds(_, _, _, _, _)
ScanBorderTieEnds(cell, dist_to_peak, manhattan_sup, border, i) ==
    IF i > Len(border) THEN TRUE
    ELSE IF manhattan_distance(cell, border[i]) > manhattan_sup
         THEN ScanBorderTieEnds(cell, dist_to_peak, manhattan_sup, border, i + 1)
         ELSE IF euclidean_distance(cell, border[i]) <= dist_to_peak
              THEN FALSE
              ELSE ScanBorderTieEnds(cell, dist_to_peak, manhattan_sup, border, i + 1)

\* the loop of lines 237-251 from position i on: TRUE iff it runs to the end
RECURSIVE ScanBorder(_, _, _, _, _)
ScanBorder(cell, dist_to_peak, manhattan_sup, border, i) ==
    IF i > Len(border) THEN TRUE
    ELSE IF manhattan_distance(cell, border[i]) > manhattan_sup
         THEN ScanBorder(cell, dist_to_peak, manhattan_sup, border, i + 1)
         ELSE IF euclidean_distance(cell, border[i]) < dist_to_peak
              THEN FALSE
              ELSE ScanBorder(cell, dist_to_peak, manhattan_sup, border, i + 1)

\* mutant: the peak cell is classified like any other cell
adapt_value_peak_not_skipped(m, r, c, nd, pr, pcol, border) ==
    LET current_cell_value == m[r][c]
        dist_to_peak == euclidean_distance(<<r, c>>, <<pr, pcol>>)
        manhattan_sup == math_ceil(dist_to_peak)
    IN  IF current_cell_value = nd THEN <<nd, FALSE>>
        ELSE IF border = <<>> THEN <<current_cell_value, FALSE>>
        ELSE <<current_cell_value,
               ScanBorder(<<r, c>>, dist_to_peak, manhattan_sup, border, 1)>>

\* returns <<value, is_dominated>>
adapt_value_based_on_dominance(m, r, c, nd, pr, pcol, border) ==
    LET current_cell_value == m[r][c]
        dist_to_peak == euclidean_distance(<<r, c>>, <<pr, pcol>>)
        manhattan_sup == math_ceil(dist_to_peak)
    IN  IF current_cell_value = nd THEN <<nd, FALSE>>
        ELSE IF r = pr /\ c = pcol THEN <<nd, FALSE>>
        ELSE IF border = <<>> THEN <<current_cell_value, FALSE>>
        ELSE <<current_cell_value,
               ScanBorder(<<r, c>>, dist_to_peak, manhattan_sup, border, 1)>>

\* mutant: the 1/0 encoding of the docstring
EncodeAsFlag(res) == IF res[2] THEN 1 ELSE 0

\* line 211
EncodeDominance(res) == IF res[2] THEN -res[1] ELSE res[1]

\* the loop of lines 207-211
ClassifyAll(m, nc, nr, nd, pr, pcol, border) ==
    [r \in Rows(nr) |-> [c \in Cols(nc) |->
        EncodeDominance(adapt_value_based_on_dominance(m, r, c, nd, pr, pcol, border))]]

\* mutant: 0 is written to every cell, the no-data cells included
NoDataPeakAllZero(m, nc, nr, nd) ==
    [r \in Rows(nr) |-> [c \in Cols(nc) |-> 0]]

\* lines 164-169: the grid returned for a peak that is no-data
NoDataPeakMatrix(m, nc, nr, nd) ==
    [r \in Rows(nr) |-> [c \in Cols(nc) |-> IF m[r][c] = nd THEN nd ELSE 0]]

\* a list of n items accepts the indices -n .. n-1; a negative one counts
\* from the end
PyIndexOk(i, n) == -n <= i /\ i < n
PyIndex(i, n) == IF i < 0 THEN i + n ELSE i

\* matrix_data[r][c] of a grid of nr rows and nc columns
PyGet(m, nr, nc, r, c) == m[PyIndex(r, nr)][PyIndex(c, nc)]

\* mutant: only the upper bounds are checked
PeakInBoundsUpperOnly(pr, pcol, nr, nc) == pr < nr /\ pcol < nc

\* mutant: the last row is taken for out of bounds
PeakInBoundsOffByOne(pr, pcol, nr, nc) == 0 <= pr /\ pr < nr - 1 /\ 0 <= pcol /\ pcol < nc

\* line 151
PeakInBounds(pr, pcol, nr, nc) == 0 <= pr /\ pr < nr /\ 0 <= pcol /\ pcol < nc

-----------------------------------------------------------------------------
(* calculate_peak_dominance as steps of the run *)

\* lines 151-154: exit(1) on a peak out of bounds
CalcInvalidPeak ==
    /\ pc = "call"
    /\ ~PeakInBounds(peak_row, peak_col, nrows, ncols)
    /\ pc' = "exit"
    /\ exit_status' = 1
    /\ UNCHANGED <<matrix_data, ncols, nrows, nodata_value, peak_row, peak_col,
                   higher_border_cells, output_matrix, infile, outfile, readback>>
    /\ UNCHANGED heapVars
    /\ UNCHANGED toolVars

\* lines 156-170: the peak is no-data
CalcNoDataPeak ==
    /\ pc = "call"
    /\ PeakInBounds(peak_row, peak_col, nrows, ncols)
    /\ PyGet(matrix_data, nrows, ncols, peak_row, peak_col) = nodata_value
    /\ output_matrix' = NoDataPeakMatrix(matrix_data, ncols, nrows, nodata_value)
    /\ pc' = "returned"
    /\ UNCHANGED <<matrix_data, ncols, nrows, nodata_value, peak_row, peak_col,
                   higher_border_cells, exit_status, infile, outfile, readback>>
    /\ output_rows' = AllocateRows(matrix_rows, nrows)
    /\ UNCHANGED matrix_rows
    /\ UNCHANGED toolVars

\* lines 172-204: step 1
CalcBorder ==
    /\ pc = "call"
    /\ PeakInBounds(peak_row, peak_col, nrows, ncols)
    /\ PyGet(matrix_data, nrows, ncols, peak_row, peak_col) # nodata_value
    /\ \E border \in ListOfSet(HigherBorderSet(matrix_data, ncols, nrows, nodata_value,
                                               PyGet(matrix_data, nrows, ncols,
                                                     peak_row, peak_col))) :
           higher_border_cells' = border
    /\ pc' = "classify"
    /\ UNCHANGED <<matrix_data, ncols, nrows, nodata_value, peak_row, peak_col,
                   output_matrix, exit_status, infile, outfile, readback>>
    /\ UNCHANGED heapVars
    /\ UNCHANGED toolVars

\* lines 206-214: step 3 and the return
CalcClassify ==
    /\ pc = "classify"
    /\ output_matrix' = ClassifyAll(matrix_data, ncols, nrows, nodata_value,
                                    peak_row, peak_col, higher_border_cells)
    /\ pc' = "returned"
    /\ UNCHANGED <<matrix_data, ncols, nrows, nodata_value, peak_row, peak_col,
                   higher_border_cells, exit_status, infile, outfile, readback>>
    /\ output_rows' = AllocateRows(matrix_rows, nrows)
    /\ UNCHANGED matrix_rows
    /\ UNCHANGED toolVars

-----------------------------------------------------------------------------
(* The grid text format.  A file is the sequence of its lines and a line   *)
(* the sequence of its whitespace-separated tokens (line.split()); a blank *)
(* line, like the end of the file, is the empty sequence.  A token is a    *)
(* word (text that is no number), an integer literal such as 3 or -9999,   *)
(* or a decimal literal such as 1.500, which holds num/Scale.              *)

Word(s) == [kind |-> "word", text |-> s, num |-> 0]
IntLit(n) == [kind |-> "int", text |-> "", num |-> n]
DecLit(v) == [kind |-> "dec", text |-> "", num |-> v]

\* int(value) raises ValueError unless the text is an integer literal
IntParses(tok) == tok.kind = "int"
py_int(tok) == tok.num

\* float(value) raises ValueError on a word
FloatParses(tok) == tok.kind \in {"int", "dec"}
py_float(tok) == IF tok.kind = "int" THEN Num(tok.num) ELSE tok.num

\* parts[0] compared with the header keys
KeyText(tok) == IF tok.kind = "word" THEN tok.text ELSE ""

\* range(6)
HeaderLineCount == 6

\* nodata_value = -9999.0
DefaultNoData == Num(-9999)

\* lines 31-35: six non-empty lines are read
HeaderComplete(f) ==
    \A i \in 1 .. HeaderLineCount : i <= Len(f) /\ f[i] # <<>>

\* lines 38-55, from header line i on; acc holds ncols, nrows, nodata_value
\* and ok = FALSE once a ValueError was raised
RECURSIVE ParseHeader(_, _, _)
ParseHeader(f, i, acc) ==
    IF i > HeaderLineCount \/ ~acc.ok THEN acc
    ELSE LET parts == f[i]
             failed == [acc EXCEPT !.ok = FALSE]
         IN  IF Len(parts) < 2 THEN failed
             ELSE LET key == KeyText(parts[1])
                      value == parts[2]
                  IN  IF key = "ncols"
                      THEN IF IntParses(value)
                           THEN ParseHeader(f, i + 1, [acc EXCEPT !.ncols = py_int(value)])
                           ELSE failed
                      ELSE IF key = "nrows"
                      THEN IF IntParses(value)
                           THEN ParseHeader(f, i + 1, [acc EXCEPT !.nrows = py_int(value)])
                           ELSE failed
                      ELSE IF key = "NODATA_value"
                      THEN IF FloatParses(value)
                           THEN ParseHeader(f, i + 1,
                                            [acc EXCEPT !.nodata_value = py_float(value)])
                           ELSE failed
                      ELSE ParseHeader(f, i + 1, acc)

\* lines 58-61: the lines after the header
DataLines(f) == SubSeq(f, HeaderLineCount + 1, Len(f))

DataParses(data) ==
    \A i \in 1 .. Len(data) : \A j \in 1 .. Len(data[i]) : FloatParses(data[i][j])

\* mutant: a row may hold more than ncols entries
DimensionsMatchAtLeast(nc, nr, data) ==
    nc > 0 /\ nr > 0 /\ Len(data) = nr /\ \A i \in 1 .. Len(data) : Len(data[i]) >= nc

\* line 74
DimensionsMatch(nc, nr, data) ==
    nc > 0 /\ nr > 0 /\ Len(data) = nr /\ \A i \in 1 .. Len(data) : Len(data[i]) = nc

ReadFailure ==
    [ok |-> FALSE, ncols |-> 0, nrows |-> 0, nodata_value |-> DefaultNoData,
     matrix_data |-> NoGrid]

\* the tuple read_ascii_matrix returns, or ok = FALSE where it calls exit(1)
read_ascii_matrix(f) ==
    IF ~HeaderComplete(f) THEN ReadFailure
    ELSE LET h == ParseHeader(f, 1, [ok |-> TRUE, ncols |-> 0, nrows |-> 0,
                                     nodata_value |-> DefaultNoData])
             data == DataLines(f)
         IN  IF ~h.ok \/ ~DataParses(data) THEN ReadFailure
             ELSE IF ~DimensionsMatch(h.ncols, h.nrows, data) THEN ReadFailure
             ELSE [ok |-> TRUE, ncols |-> h.ncols, nrows |-> h.nrows,
                   nodata_value |-> h.nodata_value,
                   matrix_data |-> [r \in Rows(h.nrows) |-> [c \in Cols(h.ncols) |->
                                       py_float(data[r + 1][c + 1])]]]

\* int(val): truncation towards zero
py_trunc(v) == IF v >= 0 THEN v \div Scale ELSE -((-v) \div Scale)

\* f"{int(val)}"
FormatInt(v) == IntLit(py_trunc(v))

\* f"{val:.3f}": the nearest multiple of 0.001 (no cell value of the model
\* lies halfway between two)
Milli == Scale \div 1000
FormatFixed3(v) ==
    DecLit(IF v >= 0 THEN ((v + Milli \div 2) \div Milli) * Milli
           ELSE -(((-v + Milli \div 2) \div Milli) * Milli))

\* f"{nodata_value}" of a float: its shortest repr, which float() reads back
FormatRepr(v) == DecLit(v)

\* lines 98-103
WriteHeader(nc, nr, nd) ==
    << <<Word("ncols"), IntLit(nc)>>,
       <<Word("nrows"), IntLit(nr)>>,
       <<Word("NODATA_value"), FormatRepr(nd)>>,
       <<Word("xllcorner"), Word("N/A")>>,
       <<Word("yllcorner"), Word("N/A")>>,
       <<Word("cellsize"), Word("N/A")>> >>

\* write_ascii_matrix of dominance.py and parse_image.py
write_ascii_matrix_int(m, nc, nr, nd) ==
    WriteHeader(nc, nr, nd) \o
    [i \in 1 .. Cardinality(DOMAIN m) |->
        [j \in 1 .. Cardinality(DOMAIN m[i - 1]) |-> FormatInt(m[i - 1][j - 1])]]

\* write_ascii_matrix of restrict.py and downsample.py
write_ascii_matrix_3f(m, nc, nr, nd) ==
    WriteHeader(nc, nr, nd) \o
    [i \in 1 .. Cardinality(DOMAIN m) |->
        [j \in 1 .. Cardinality(DOMAIN m[i - 1]) |-> FormatFixed3(m[i - 1][j - 1])]]

-----------------------------------------------------------------------------
(* read_ascii_matrix as steps of a run *)

\* line 82: the tuple is returned (and unpacked as on line 264)
ReadReturns ==
    /\ pc = "read"
    /\ LET res == read_ascii_matrix(infile)
       IN  /\ res.ok
           /\ ncols' = res.ncols
           /\ nrows' = res.nrows
           /\ nodata_value' = res.nodata_value
           /\ matrix_data' = res.matrix_data
    /\ pc' = "loaded"
    /\ UNCHANGED <<peak_row, peak_col, higher_border_cells, output_matrix,
                   exit_status, infile, outfile, readback>>
    /\ matrix_rows' = AllocateRows(<<>>, read_ascii_matrix(infile).nrows)
    /\ UNCHANGED output_rows
    /\ UNCHANGED toolVars

\* lines 66-71 and 74-80: exit(1)
ReadExits ==
    /\ pc = "read"
    /\ ~read_ascii_matrix(infile).ok
    /\ pc' = "exit"
    /\ exit_status' = 1
    /\ UNCHANGED <<matrix_data, ncols, nrows, nodata_value, peak_row, peak_col,
                   higher_border_cells, output_matrix, infile, outfile, readback>>
    /\ UNCHANGED heapVars
    /\ UNCHANGED toolVars

-----------------------------------------------------------------------------
(* write_ascii_matrix and the reading back of what it wrote *)

\* dominance.py, parse_image.py: lines 96-108
WriteInt ==
    /\ pc = "write"
    /\ outfile' = write_ascii_matrix_int(output_matrix, ncols, nrows, nodata_value)
    /\ pc' = "written_int"
    /\ UNCHANGED <<matrix_data, ncols, nrows, nodata_value, peak_row, peak_col,
                   higher_border_cells, output_matrix, exit_status, infile, readback>>
    /\ UNCHANGED heapVars
    /\ UNCHANGED toolVars

\* restrict.py, downsample.py
WriteFixed3 ==
    /\ pc = "write"
    /\ outfile' = write_ascii_matrix_3f(output_matrix, ncols, nrows, nodata_value)
    /\ pc' = "written_3f"
    /\ UNCHANGED <<matrix_data, ncols, nrows, nodata_value, peak_row, peak_col,
                   higher_border_cells, output_matrix, exit_status, infile, readback>>
    /\ UNCHANGED heapVars
    /\ UNCHANGED toolVars

\* read_ascii_matrix of the written file
ReadBack ==
    /\ pc \in {"written_int", "written_3f"}
    /\ readback' = read_ascii_matrix(outfile)
    /\ pc' = IF pc = "written_int" THEN "reread_int" ELSE "reread_3f"
    /\ UNCHANGED <<matrix_data, ncols, nrows, nodata_value, peak_row, peak_col,
                   higher_border_cells, output_matrix, exit_status, infile, outfile>>
    /\ UNCHANGED heapVars
    /\ UNCHANGED toolVars

-----------------------------------------------------------------------------
(* The inputs of calculate_peak_dominance *)

Low == Num(1)
High == Num(2)
Values == {Low, High}
NoDataValues == {Num(-1), Num(3)}

Shapes(maxr, maxc) == (1 .. maxr) \X (1 .. maxc)

\* every grid of at most MaxCells cells over Values and the no-data value
SmallGrids(nd) ==
    UNION { [Rows(s[1]) -> [Cols(s[2]) -> Values \cup {nd}]] :
            s \in { t \in Shapes(MaxCells, MaxCells) : t[1] * t[2] <= MaxCells } }

\* a rectangular block of one value on a background of another
BlockGrid(nr, nc, r1, r2, c1, c2, inner, outer) ==
    [r \in Rows(nr) |-> [c \in Cols(nc) |->
        IF r1 <= r /\ r <= r2 /\ c1 <= c /\ c <= c2 THEN inner ELSE outer]]

BlockGrids(nd) ==
    UNION { { BlockGrid(s[1], s[2], r1, r2, c1, c2, inner, outer) :
                r1 \in Rows(s[1]), r2 \in Rows(s[1]), c1 \in Cols(s[2]), c2 \in Cols(s[2]),
                inner \in Values \cup {nd}, outer \in Values \cup {nd} } :
            s \in Shapes(BlockRows, BlockCols) }

\* the grids of the two end-to-end examples, with no-data -9999
ExampleNoData == Num(-9999)

ExampleGrid3x3 ==
    [r \in Rows(3) |-> [c \in Cols(3) |-> IF r = 1 /\ c = 1 THEN Num(10) ELSE Num(5)]]

ExampleGrid1x5 ==
    [r \in Rows(1) |-> [c \in Cols(5) |-> IF c = 2 THEN Num(20) ELSE Num(1)]]

ExampleGrids == {ExampleGrid3x3, ExampleGrid1x5}

NumRows(m) == Cardinality(DOMAIN m)
NumCols(m) == Cardinality(DOMAIN m[0])

InitDominance ==
    /\ \/ /\ nodata_value \in NoDataValues
          /\ matrix_data \in SmallGrids(nodata_value) \cup BlockGrids(nodata_value)
       \/ /\ nodata_value = ExampleNoData
          /\ matrix_data \in ExampleGrids
    /\ nrows = NumRows(matrix_data)
    /\ ncols = NumCols(matrix_data)
    /\ peak_row \in -1 .. nrows
    /\ peak_col \in -1 .. ncols
    /\ pc = "call"
    /\ higher_border_cells = <<>>
    /\ output_matrix = NoGrid
    /\ exit_status = 0
    /\ infile = <<>>
    /\ outfile = NoFile
    /\ readback = NoGrid
    /\ matrix_rows = InputRows(nrows)
    /\ output_rows = <<>>
    /\ IdleTools

Init == InitDominance

Next ==
    \/ CalcInvalidPeak
    \/ CalcNoDataPeak
    \/ CalcBorder
    \/ CalcClassify

Spec == Init /\ [][Next]_vars

-----------------------------------------------------------------------------
(* The inputs of read_ascii_matrix: the files the writers produce for the  *)
(* all-ones grids of the declared sizes, with at most MaxDefects edits     *)

HeaderDims == {1, 2}

WellFormedFiles ==
    UNION { { write_ascii_matrix_int([r \in Rows(nr) |-> [c \in Cols(nc) |-> Num(1)]],
                                     nc, nr, Num(-1)),
              write_ascii_matrix_3f([r \in Rows(nr) |-> [c \in Cols(nc) |-> Num(1)]],
                                    nc, nr, Num(-1)) } :
            nr \in HeaderDims, nc \in HeaderDims }

LineChoices ==
    { <<Word("ncols"), IntLit(0)>>,
      <<Word("ncols"), IntLit(2)>>,
      <<Word("ncols"), DecLit(Num(2))>>,
      <<Word("nrows"), IntLit(-1)>>,
      <<Word("nrows"), IntLit(1)>>,
      <<Word("nrows"), Word("two")>>,
      <<Word("NODATA_value"), IntLit(-2)>>,
      <<Word("NODATA_value"), Word("N/A")>>,
      <<Word("cellsize"), Word("N/A")>>,
      <<Word("foo"), IntLit(1)>>,
      <<Word("ncols")>>,
      <<IntLit(1), IntLit(1)>>,
      <<>> }

TokenChoices == { Word("x"), IntLit(2), DecLit(Num(3) \div 2) }

ReplaceAt(s, i, x) == [s EXCEPT ![i] = x]
RemoveAt(s, i) == SubSeq(s, 1, i - 1) \o SubSeq(s, i + 1, Len(s))

Edits(f) ==
    { ReplaceAt(f, i, l) : i \in 1 .. Len(f), l \in LineChoices }
    \cup { RemoveAt(f, i) : i \in 1 .. Len(f) }
    \cup { Append(f, l) : l \in LineChoices }
    \cup UNION { { ReplaceAt(f, i, ReplaceAt(f[i], j, t)) :
                     j \in 1 .. Len(f[i]), t \in TokenChoices } : i \in 1 .. Len(f) }
    \cup { ReplaceAt(f, i, Append(f[i], t)) : i \in 1 .. Len(f), t \in TokenChoices }
    \cup { ReplaceAt(f, i, RemoveAt(f[i], Len(f[i]))) :
             i \in { k \in 1 .. Len(f) : f[k] # <<>> } }

RECURSIVE FilesWithin(_)
FilesWithin(k) ==
    IF k = 0 THEN WellFormedFiles
    ELSE LET F == FilesWithin(k - 1) IN F \cup UNION { Edits(f) : f \in F }

InitRead ==
    /\ IF MaxDefects = 0
       THEN infile \in WellFormedFiles
       ELSE \E f \in FilesWithin(MaxDefects - 1) : infile \in {f} \cup Edits(f)
    /\ pc = "read"
    /\ matrix_data = NoGrid
    /\ ncols = 0
    /\ nrows = 0
    /\ nodata_value = DefaultNoData
    /\ peak_row = 0
    /\ peak_col = 0
    /\ higher_border_cells = <<>>
    /\ output_matrix = NoGrid
    /\ exit_status = 0
    /\ outfile = NoFile
    /\ readback = NoGrid
    /\ matrix_rows = <<>>
    /\ output_rows = <<>>
    /\ IdleTools

NextRead ==
    \/ ReadReturns
    \/ ReadExits

SpecRead == InitRead /\ [][NextRead]_vars

-----------------------------------------------------------------------------
(* The inputs of write_ascii_matrix: every grid of at most MaxWriteCells    *)
(* cells over integer and fractional values                                 *)

WriteValues ==
    { Num(1), Num(-2), Num(3) \div 2, -(Num(1) \div 2), Num(12346) \div Scale }

WriteNoDataValues == { Num(-9999), Num(-1) }

WriteGrids(nd) ==
    UNION { [Rows(s[1]) -> [Cols(s[2]) -> WriteValues \cup {nd}]] :
            s \in { t \in Shapes(MaxWriteCells, MaxWriteCells) : t[1] * t[2] <= MaxWriteCells } }

InitRoundTrip ==
    /\ nodata_value \in WriteNoDataValues
    /\ output_matrix \in WriteGrids(nodata_value)
    /\ nrows = NumRows(output_matrix)
    /\ ncols = NumCols(output_matrix)
    /\ pc = "write"
    /\ matrix_data = NoGrid
    /\ peak_row = 0
    /\ peak_col = 0
    /\ higher_border_cells = <<>>
    /\ exit_status = 0
    /\ infile = <<>>
    /\ outfile = NoFile
    /\ readback = NoGrid
    /\ matrix_rows = <<>>
    /\ output_rows = InputRows(nrows)
    /\ IdleTools

NextRoundTrip ==
    \/ WriteInt
    \/ WriteFixed3
    \/ ReadBack

SpecRoundTrip == InitRoundTrip /\ [][NextRoundTrip]_vars

-----------------------------------------------------------------------------
(* The run of the dominance tool: __main__ of dominance.py *)

\* lines 259-260: int(sys.argv[4]) and int(sys.argv[3]) raise IndexError on
\* a missing argument and ValueError on text that is no integer literal
ArgsParse(a) == Len(a) >= 4 /\ IntParses(a[4]) /\ IntParses(a[3])

\* lines 257-260
MainArgs ==
    /\ pc = "main"
    /\ ArgsParse(argv)
    /\ peak_row' = py_int(argv[4])
    /\ peak_col' = py_int(argv[3])
    /\ pc' = "read"
    /\ UNCHANGED <<matrix_data, ncols, nrows, nodata_value, higher_border_cells,
                   output_matrix, exit_status, infile, outfile, readback>>
    /\ UNCHANGED heapVars
    /\ UNCHANGED toolVars

\* lines 259-260: the exception is not caught, the interpreter ends with status 1
MainArgsRaise ==
    /\ pc = "main"
    /\ ~ArgsParse(argv)
    /\ pc' = "exit"
    /\ exit_status' = 1
    /\ UNCHANGED <<matrix_data, ncols, nrows, nodata_value, peak_row, peak_col,
                   higher_border_cells, output_matrix, infile, outfile, readback>>
    /\ UNCHANGED heapVars
    /\ UNCHANGED toolVars

\* line 266: original_matrix[peak_row_id][peak_col_id] is printed
MainPrintPeak ==
    /\ pc = "loaded"
    /\ PyIndexOk(peak_row, nrows) /\ PyIndexOk(peak_col, ncols)
    /\ pc' = "call"
    /\ UNCHANGED <<matrix_data, ncols, nrows, nodata_value, peak_row, peak_col,
                   higher_border_cells, output_matrix, exit_status, infile, outfile,
                   readback>>
    /\ UNCHANGED heapVars
    /\ UNCHANGED toolVars

\* line 266: IndexError, not caught, the interpreter ends with status 1
MainPrintPeakRaises ==
    /\ pc = "loaded"
    /\ ~(PyIndexOk(peak_row, nrows) /\ PyIndexOk(peak_col, ncols))
    /\ pc' = "exit"
    /\ exit_status' = 1
    /\ UNCHANGED <<matrix_data, ncols, nrows, nodata_value, peak_row, peak_col,
                   higher_border_cells, output_matrix, infile, outfile, readback>>
    /\ UNCHANGED heapVars
    /\ UNCHANGED toolVars

\* line 277: write_ascii_matrix writes the whole file
MainWrite ==
    /\ pc = "returned"
    /\ outfile' = write_ascii_matrix_int(output_matrix, ncols, nrows, nodata_value)
    /\ pc' = "done"
    /\ UNCHANGED <<matrix_data, ncols, nrows, nodata_value, peak_row, peak_col,
                   higher_border_cells, output_matrix, exit_status, infile, readback>>
    /\ UNCHANGED heapVars
    /\ UNCHANGED toolVars

\* lines 96-97 and 109-111: open(filepath, 'w') fails, exit(1)
MainWriteFails ==
    /\ pc = "returned"
    /\ pc' = "exit"
    /\ exit_status' = 1
    /\ UNCHANGED <<matrix_data, ncols, nrows, nodata_value, peak_row, peak_col,
                   higher_border_cells, output_matrix, infile, outfile, readback>>
    /\ UNCHANGED heapVars
    /\ UNCHANGED toolVars

\* the peak arguments given on the command line
MainPeakArgs == -2 .. 2

MainArgvs ==
    { <<Word("in.asc"), Word("out.asc"), IntLit(c), IntLit(r)>> :
        c \in MainPeakArgs, r \in MainPeakArgs }
    \cup { <<Word("in.asc"), Word("out.asc"), IntLit(0)>>,
           <<Word("in.asc"), Word("out.asc"), Word("x"), IntLit(0)>>,
           <<Word("in.asc"), Word("out.asc"), IntLit(0), DecLit(Num(1))>> }

MaskedGrid2x2 ==
    [r \in Rows(2) |-> [c \in Cols(2) |->
        IF r = 0 /\ c = 1 THEN Num(-1) ELSE IF r = 1 /\ c = 0 THEN Num(2) ELSE Num(1)]]

\* grid files with a higher cell and with a no-data cell
ExampleFiles ==
    { write_ascii_matrix_3f(ExampleGrid1x5, 5, 1, ExampleNoData),
      write_ascii_matrix_3f(ExampleGrid3x3, 3, 3, ExampleNoData),
      write_ascii_matrix_3f(MaskedGrid2x2, 2, 2, Num(-1)) }

\* the example files, the well-formed files and one of them with one edit
MainFiles ==
    ExampleFiles \cup WellFormedFiles
    \cup Edits(write_ascii_matrix_int([r \in Rows(2) |-> [c \in Cols(2) |-> Num(1)]],
                                      2, 2, Num(-1)))

InitMain ==
    /\ infile \in MainFiles
    /\ argv \in MainArgvs
    /\ pc = "main"
    /\ matrix_data = NoGrid
    /\ ncols = 0
    /\ nrows = 0
    /\ nodata_value = DefaultNoData
    /\ peak_row = 0
    /\ peak_col = 0
    /\ higher_border_cells = <<>>
    /\ output_matrix = NoGrid
    /\ exit_status = 0
    /\ outfile = NoFile
    /\ readback = NoGrid
    /\ matrix_rows = <<>>
    /\ output_rows = <<>>
    /\ matrix2_data = NoGrid
    /\ ncols2 = 0
    /\ nrows2 = 0
    /\ nodata_value2 = 0
    /\ factor = 0
    /\ image = NoImage
    /\ returned_header = NoHeader

NextMain ==
    \/ MainArgs
    \/ MainArgsRaise
    \/ ReadReturns
    \/ ReadExits
    \/ MainPrintPeak
    \/ MainPrintPeakRaises
    \/ CalcInvalidPeak
    \/ CalcNoDataPeak
    \/ CalcBorder
    \/ CalcClassify
    \/ MainWrite
    \/ MainWriteFails

\* the interpreter runs the program to its end
SpecMain == InitMain /\ [][NextMain]_vars /\ WF_vars(NextMain)

-----------------------------------------------------------------------------
(* combine_matrices of restrict.py *)

\* mutant: the second grid only has to cover the first
DimensionsAgreeCovering(nc1, nr1, nc2, nr2) == nc1 <= nc2 /\ nr1 <= nr2

\* line 136
DimensionsAgree(nc1, nr1, nc2, nr2) == nc1 = nc2 /\ nr1 = nr2

\* mutant: the cell of the second grid is compared with the no-data value of
\* the first
combine_cells_first_nodata(m1, nc1, nr1, nd1, m2, nd2) ==
    [r \in Rows(nr1) |-> [c \in Cols(nc1) |->
        IF m2[r][c] # nd1 THEN m1[r][c] ELSE nd1]]

\* lines 141-154: combined_matrix
combine_cells(m1, nc1, nr1, nd1, m2, nd2) ==
    [r \in Rows(nr1) |-> [c \in Cols(nc1) |->
        IF m2[r][c] # nd2 THEN m1[r][c] ELSE nd1]]

\* lines 136-139: exit(1) on grids of different dimensions
CombineMismatch ==
    /\ pc = "combine"
    /\ ~DimensionsAgree(ncols, nrows, ncols2, nrows2)
    /\ pc' = "exit"
    /\ exit_status' = 1
    /\ UNCHANGED <<matrix_data, ncols, nrows, nodata_value, peak_row, peak_col,
                   higher_border_cells, output_matrix, infile, outfile, readback>>
    /\ UNCHANGED heapVars
    /\ UNCHANGED toolVars

\* lines 141-156
CombineReturns ==
    /\ pc = "combine"
    /\ DimensionsAgree(ncols, nrows, ncols2, nrows2)
    /\ output_matrix' = combine_cells(matrix_data, ncols, nrows, nodata_value,
                                      matrix2_data, nodata_value2)
    /\ output_rows' = AllocateRows(matrix_rows, nrows)
    /\ returned_header' = [ncols |-> ncols, nrows |-> nrows, nodata_value |-> nodata_value]
    /\ pc' = "combined"
    /\ UNCHANGED <<matrix_data, ncols, nrows, nodata_value, peak_row, peak_col,
                   higher_border_cells, exit_status, infile, outfile, readback>>
    /\ UNCHANGED <<matrix_rows, argv, matrix2_data, ncols2, nrows2, nodata_value2,
                   factor, image>>

\* the two grids: every grid of at most MaxCombineCells cells
MaxCombineCells == 3

CombineShapes == { t \in Shapes(MaxCombineCells, MaxCombineCells) : t[1] * t[2] <= MaxCombineCells }

CombineNoData1 == {Num(-1), Num(3)}
CombineNoData2 == {Num(-1), Num(2)}

InitCombine ==
    /\ nodata_value \in CombineNoData1
    /\ nodata_value2 \in CombineNoData2
    /\ \E s \in CombineShapes :
           matrix_data \in [Rows(s[1]) -> [Cols(s[2]) -> {Num(1), Num(2), nodata_value}]]
    /\ \E s \in CombineShapes :
           matrix2_data \in [Rows(s[1]) -> [Cols(s[2]) -> {Num(1), Num(-1), nodata_value2}]]
    /\ nrows = NumRows(matrix_data)
    /\ ncols = NumCols(matrix_data)
    /\ nrows2 = NumRows(matrix2_data)
    /\ ncols2 = NumCols(matrix2_data)
    /\ matrix_rows = InputRows(nrows)
    /\ output_rows = <<>>
    /\ pc = "combine"
    /\ peak_row = 0
    /\ peak_col = 0
    /\ higher_border_cells = <<>>
    /\ output_matrix = NoGrid
    /\ exit_status = 0
    /\ infile = <<>>
    /\ outfile = NoFile
    /\ readback = NoGrid
    /\ argv = <<>>
    /\ factor = 0
    /\ image = NoImage
    /\ returned_header = NoHeader

NextCombine ==
    \/ CombineMismatch
    \/ CombineReturns

SpecCombine == InitCombine /\ [][NextCombine]_vars

-----------------------------------------------------------------------------
(* downsample_matrix of downsample.py *)

\* the factor argument: an int, or text as __main__ passes it from sys.argv
IntFactor(n) == [kind |-> "int", num |-> n]
StrFactor(n) == [kind |-> "str", num |-> n]

\* line 102
FactorValid(f) == f.kind = "int" /\ f.num > 0

Max(a, b) == IF a >= b THEN a ELSE b

\* the k-th cell of block (r, c) in the order of the loops of lines 134-135
BlockCell(m, r, c, f, k) == m[r * f + (k \div f)][c * f + (k % f)]

\* lines 134-145 from the k-th cell of the block on; acc holds block_sum,
\* valid_count and max_value
RECURSIVE ScanBlock(_, _, _, _, _, _, _)
ScanBlock(m, nd, r, c, f, k, acc) ==
    IF k = f * f THEN acc
    ELSE LET value == BlockCell(m, r, c, f, k)
         IN  IF value # nd
             THEN ScanBlock(m, nd, r, c, f, k + 1,
                            [block_sum |-> acc.block_sum + value,
                             valid_count |-> acc.valid_count + 1,
                             max_value |-> Max(nd, value)])
             ELSE ScanBlock(m, nd, r, c, f, k + 1, acc)

\* lines 120-152: the cell written for block (r, c); max_value is read only
\* when valid_count > 0, that is after line 145 assigned it in this block
downsample_cell(m, nd, r, c, f) ==
    LET acc == ScanBlock(m, nd, r, c, f, 0,
                         [block_sum |-> 0, valid_count |-> 0, max_value |-> nd])
    IN  IF acc.valid_count > 0 THEN acc.max_value ELSE nd

\* lines 102-104
DownsampleBadFactor ==
    /\ pc = "downsample"
    /\ ~FactorValid(factor)
    /\ pc' = "exit"
    /\ exit_status' = 1
    /\ UNCHANGED <<matrix_data, ncols, nrows, nodata_value, peak_row, peak_col,
                   higher_border_cells, output_matrix, infile, outfile, readback>>
    /\ UNCHANGED heapVars
    /\ UNCHANGED toolVars

\* lines 108-114
DownsampleTooLarge ==
    /\ pc = "downsample"
    /\ FactorValid(factor)
    /\ (nrows \div factor.num = 0 \/ ncols \div factor.num = 0)
    /\ pc' = "exit"
    /\ exit_status' = 1
    /\ UNCHANGED <<matrix_data, ncols, nrows, nodata_value, peak_row, peak_col,
                   higher_border_cells, output_matrix, infile, outfile, readback>>
    /\ UNCHANGED heapVars
    /\ UNCHANGED toolVars

\* lines 116-155
DownsampleReturns ==
    /\ pc = "downsample"
    /\ FactorValid(factor)
    /\ LET new_nrows == nrows \div factor.num
           new_ncols == ncols \div factor.num
       IN  /\ new_nrows # 0 /\ new_ncols # 0
           /\ output_matrix' = [r \in Rows(new_nrows) |-> [c \in Cols(new_ncols) |->
                   downsample_cell(matrix_data, nodata_value, r, c, factor.num)]]
           /\ output_rows' = AllocateRows(matrix_rows, new_nrows)
           /\ returned_header' = [ncols |-> new_ncols, nrows |-> new_nrows]
    /\ pc' = "downsampled"
    /\ UNCHANGED <<matrix_data, ncols, nrows, nodata_value, peak_row, peak_col,
                   higher_border_cells, exit_status, infile, outfile, readback>>
    /\ UNCHANGED <<matrix_rows, argv, matrix2_data, ncols2, nrows2, nodata_value2,
                   factor, image>>

\* the grids: every grid of at most MaxDownsampleCells cells
MaxDownsampleCells == 4

DownsampleShapes ==
    { t \in Shapes(MaxDownsampleCells, MaxDownsampleCells) : t[1] * t[2] <= MaxDownsampleCells }

Factors == { IntFactor(n) : n \in -1 .. 3 } \cup { StrFactor(2) }

InitDownsample ==
    /\ nodata_value \in NoDataValues
    /\ \E s \in DownsampleShapes :
           matrix_data \in [Rows(s[1]) -> [Cols(s[2]) -> Values \cup {nodata_value}]]
    /\ nrows = NumRows(matrix_data)
    /\ ncols = NumCols(matrix_data)
    /\ factor \in Factors
    /\ matrix_rows = InputRows(nrows)
    /\ output_rows = <<>>
    /\ pc = "downsample"
    /\ peak_row = 0
    /\ peak_col = 0
    /\ higher_border_cells = <<>>
    /\ output_matrix = NoGrid
    /\ exit_status = 0
    /\ infile = <<>>
    /\ outfile = NoFile
    /\ readback = NoGrid
    /\ argv = <<>>
    /\ matrix2_data = NoGrid
    /\ ncols2 = 0
    /\ nrows2 = 0
    /\ nodata_value2 = 0
    /\ image = NoImage
    /\ returned_header = NoHeader

NextDownsample ==
    \/ DownsampleBadFactor
    \/ DownsampleTooLarge
    \/ DownsampleReturns

SpecDownsample == InitDownsample /\ [][NextDownsample]_vars

-----------------------------------------------------------------------------
(* Images.  An image holds its mode, its size (width, height), its pixels  *)
(* as pixels[x][y] and, for a mode without an alpha band, the transparent  *)
(* colour of the file if it names one (info["transparency"]).              *)

Picture(mode, width, height, pixels, key) ==
    [mode |-> mode, size |-> <<width, height>>, pixels |-> pixels, transparency |-> key]

Black == <<0, 0, 0>>
White == <<255, 255, 255>>
Green == <<0, 255, 0>>

-----------------------------------------------------------------------------
(* create_bitmap_from_matrix of convert_to_image.py *)

ValidValues(m, nd) ==
    { m[r][c] : r \in DOMAIN m, c \in DOMAIN m[0] } \ {nd}

\* find_min_max: the least and the greatest abs(value) of the valid cells;
\* called only where a valid cell exists (None, None otherwise)
MinAbs(m, nd) ==
    CHOOSE a \in { Abs(v) : v \in ValidValues(m, nd) } :
        \A v \in ValidValues(m, nd) : a <= Abs(v)
MaxAbs(m, nd) ==
    CHOOSE a \in { Abs(v) : v \in ValidValues(m, nd) } :
        \A v \in ValidValues(m, nd) : a >= Abs(v)

Clamp(x) == IF x < 0 THEN 0 ELSE IF x > 255 THEN 255 ELSE x

\* int((1 - normalized_value) * 255) with normalized_value = 0.35 + t * 0.65
\* and t = (abs(value) - min_val) / (max_val - min_val): the integer part of
\* 165.75 * (max_val - abs(value)) / (max_val - min_val)
RedOfRamp(a, min_val, max_val) == (16575 * (max_val - a)) \div (100 * (max_val - min_val))

\* int(normalized_value * 255): the integer part of 89.25 + 165.75 * t
GreenOfRamp(a, min_val, max_val) ==
    (8925 * (max_val - min_val) + 16575 * (a - min_val)) \div (100 * (max_val - min_val))

\* lines 114-164
map_value_to_color(value, min_val, max_val, nd) ==
    IF value = nd THEN White
    ELSE IF max_val = min_val THEN Green
    ELSE LET a == Abs(value)
             red == IF a <= min_val THEN 255
                    ELSE IF a >= max_val THEN 0
                    ELSE RedOfRamp(a, min_val, max_val)
             green == IF a <= min_val THEN 0
                      ELSE IF a >= max_val THEN 255
                      ELSE GreenOfRamp(a, min_val, max_val)
         IN  IF value >= 0 THEN <<Clamp(red), 0, 0>> ELSE <<0, Clamp(green), 0>>

\* lines 181-186: no valid cell, Image.new('RGB', (ncols, nrows), color = 'black')
CreateBlankBitmap ==
    /\ pc = "bitmap"
    /\ ValidValues(matrix_data, nodata_value) = {}
    /\ image' = Picture("RGB", ncols, nrows,
                        [x \in Cols(ncols) |-> [y \in Rows(nrows) |-> Black]], NoKey)
    /\ pc' = "imaged"
    /\ UNCHANGED <<matrix_data, ncols, nrows, nodata_value, peak_row, peak_col,
                   higher_border_cells, output_matrix, exit_status, infile, outfile,
                   readback>>
    /\ UNCHANGED heapVars
    /\ UNCHANGED <<argv, matrix2_data, ncols2, nrows2, nodata_value2, factor,
                   returned_header>>

\* lines 188-204
CreateBitmap ==
    /\ pc = "bitmap"
    /\ ValidValues(matrix_data, nodata_value) # {}
    /\ image' = Picture("RGB", ncols, nrows,
                        [x \in Cols(ncols) |-> [y \in Rows(nrows) |->
                            map_value_to_color(matrix_data[y][x],
                                               MinAbs(matrix_data, nodata_value),
                                               MaxAbs(matrix_data, nodata_value),
                                               nodata_value)]], NoKey)
    /\ pc' = "imaged"
    /\ UNCHANGED <<matrix_data, ncols, nrows, nodata_value, peak_row, peak_col,
                   higher_border_cells, output_matrix, exit_status, infile, outfile,
                   readback>>
    /\ UNCHANGED heapVars
    /\ UNCHANGED <<argv, matrix2_data, ncols2, nrows2, nodata_value2, factor,
                   returned_header>>

\* the grids: every grid of at most MaxBitmapCells cells
MaxBitmapCells == 3

BitmapShapes ==
    { t \in Shapes(MaxBitmapCells, MaxBitmapCells) : t[1] * t[2] <= MaxBitmapCells }

BitmapValues == {Num(1), Num(2), Num(3), Num(-2)}
BitmapNoDataValues == {Num(-1), Num(-9999)}

InitBitmap ==
    /\ nodata_value \in BitmapNoDataValues
    /\ \E s \in BitmapShapes :
           matrix_data \in [Rows(s[1]) -> [Cols(s[2]) -> BitmapValues \cup {nodata_value}]]
    /\ nrows = NumRows(matrix_data)
    /\ ncols = NumCols(matrix_data)
    /\ matrix_rows = InputRows(nrows)
    /\ output_rows = <<>>
    /\ pc = "bitmap"
    /\ peak_row = 0
    /\ peak_col = 0
    /\ higher_border_cells = <<>>
    /\ output_matrix = NoGrid
    /\ exit_status = 0
    /\ infile = <<>>
    /\ outfile = NoFile
    /\ readback = NoGrid
    /\ IdleTools

NextBitmap ==
    \/ CreateBlankBitmap
    \/ CreateBitmap

SpecBitmap == InitBitmap /\ [][NextBitmap]_vars

-----------------------------------------------------------------------------
(* convert_png_to_ascii_matrix of parse_image.py *)

\* img.convert('RGBA') of an image without an alpha band: every pixel gets
\* alpha 255, except that the transparent colour the file names, if any, is
\* promoted to alpha 0
convert_rgba(img) ==
    IF img.mode = "RGBA" THEN img.pixels
    ELSE [x \in DOMAIN img.pixels |-> [y \in DOMAIN img.pixels[x] |->
             img.pixels[x][y] \o << IF img.transparency = img.pixels[x][y] THEN 0 ELSE 255 >>]]

\* lines 47-77: the grid is built and written
ConvertPng ==
    /\ pc = "png"
    /\ image # NoImage
    /\ LET rgba == convert_rgba(image)
           width == image.size[1]
           height == image.size[2]
           ascii_matrix == [r \in Rows(height) |-> [c \in Cols(width) |->
                               IF rgba[c][r][4] = 0 THEN nodata_value ELSE Num(1)]]
       IN  /\ ncols' = width
           /\ nrows' = height
           /\ output_matrix' = ascii_matrix
           /\ output_rows' = AllocateRows(<<>>, height)
           /\ outfile' = write_ascii_matrix_int(ascii_matrix, width, height, nodata_value)
    /\ pc' = "converted"
    /\ UNCHANGED <<matrix_data, nodata_value, peak_row, peak_col, higher_border_cells,
                   exit_status, infile, readback, matrix_rows>>
    /\ UNCHANGED toolVars

\* lines 79-81: the file is missing, exit(1)
ConvertPngNotFound ==
    /\ pc = "png"
    /\ image = NoImage
    /\ pc' = "exit"
    /\ exit_status' = 1
    /\ UNCHANGED <<matrix_data, ncols, nrows, nodata_value, peak_row, peak_col,
                   higher_border_cells, output_matrix, infile, outfile, readback>>
    /\ UNCHANGED heapVars
    /\ UNCHANGED toolVars

\* the images: every image of at most MaxPixels pixels
MaxPixels == 3

PictureShapes == { t \in Shapes(MaxPixels, MaxPixels) : t[1] * t[2] <= MaxPixels }

Alphas == {0, 128, 255}

Pictures ==
    UNION { { Picture("RGBA", t[1], t[2], px, NoKey) :
                px \in [Cols(t[1]) -> [Rows(t[2]) ->
                           { col \o <<a>> : col \in {Black, White}, a \in Alphas }]] }
            \cup { Picture("RGB", t[1], t[2], px, key) :
                     px \in [Cols(t[1]) -> [Rows(t[2]) -> {Black, White}]],
                     key \in {NoKey, Black} } :
            t \in PictureShapes }

PngNoDataValues == {Num(-9999), Num(-1)}

InitPng ==
    /\ image \in Pictures \cup {NoImage}
    /\ nodata_value \in PngNoDataValues
    /\ pc = "png"
    /\ matrix_data = NoGrid
    /\ ncols = 0
    /\ nrows = 0
    /\ peak_row = 0
    /\ peak_col = 0
    /\ higher_border_cells = <<>>
    /\ output_matrix = NoGrid
    /\ exit_status = 0
    /\ infile = <<>>
    /\ outfile = NoFile
    /\ readback = NoGrid
    /\ matrix_rows = <<>>
    /\ output_rows = <<>>
    /\ argv = <<>>
    /\ matrix2_data = NoGrid
    /\ ncols2 = 0
    /\ nrows2 = 0
    /\ nodata_value2 = 0
    /\ factor = 0
    /\ returned_header = NoHeader

NextPng ==
    \/ ConvertPng
    \/ ConvertPngNotFound

SpecPng == InitPng /\ [][NextPng]_vars

-----------------------------------------------------------------------------
(* Reference notions the claims are stated with *)

Returned == pc = "returned"

ValidPeak ==
    /\ peak_row \in Rows(nrows)
    /\ peak_col \in Cols(ncols)
    /\ matrix_data[peak_row][peak_col] # nodata_value

Peak == <<peak_row, peak_col>>

\* the cells adapt_value_based_on_dominance classifies: valid and not the peak
ClassifiedCells ==
    { p \in Cells(nrows, ncols) : matrix_data[p[1]][p[2]] # nodata_value /\ p # Peak }

\* every valid cell strictly higher than the peak, border or not
HigherCells ==
    { p \in Cells(nrows, ncols) :
        /\ matrix_data[p[1]][p[2]] # nodata_value
        /\ matrix_data[p[1]][p[2]] > matrix_data[peak_row][peak_col] }

BorderCells == { higher_border_cells[i] : i \in 1 .. Len(higher_border_cells) }

CloserThanPeak(p, q) == euclidean_distance(p, q) < euclidean_distance(p, Peak)

OutputIsDominated(p) == output_matrix[p[1]][p[2]] = -matrix_data[p[1]][p[2]]
OutputIsNotDominated(p) == output_matrix[p[1]][p[2]] = matrix_data[p[1]][p[2]]

-----------------------------------------------------------------------------
(* Claims *)

\* C1: for a valid in-bounds peak, a valid non-peak cell is output as dominated
\* (negated value) iff no valid cell strictly higher than the peak lies strictly
\* closer (Euclidean) to it than the peak; the border cells decide the same as
\* all higher cells.
C1_DominanceIffNoCloserHigherCell ==
    (Returned /\ ValidPeak) =>
        \A p \in ClassifiedCells :
            /\ OutputIsDominated(p) <=> ~(\E h \in HigherCells : CloserThanPeak(p, h))
            /\ (\E b \in BorderCells : CloserThanPeak(p, b))
                   <=> (\E h \in HigherCells : CloserThanPeak(p, h))

\* C2: the Manhattan pre-filter is sound: a border cell it skips is never
\* strictly closer than the peak, so the filtered scan of
\* adapt_value_based_on_dominance decides as the unfiltered scan does.
C2_ManhattanFilterSound ==
    (pc = "classify") =>
        \A p \in ClassifiedCells :
            /\ \A b \in BorderCells :
                   manhattan_distance(p, b) > math_ceil(euclidean_distance(p, Peak))
                       => euclidean_distance(p, b) >= euclidean_distance(p, Peak)
            /\ ScanBorder(p, euclidean_distance(p, Peak),
                          math_ceil(euclidean_distance(p, Peak)), higher_border_cells, 1)
                   <=> ~(\E b \in BorderCells : CloserThanPeak(p, b))

\* C3: with an empty higher border and a valid peak, every valid non-peak cell
\* is output as dominated (negated value).
C3_EmptyBorderDominated ==
    (Returned /\ ValidPeak /\ higher_border_cells = <<>>) =>
        \A p \in ClassifiedCells : OutputIsDominated(p)

C5_PeakCellIsNoData ==
    Returned => output_matrix[peak_row][peak_col] = nodata_value

C5_Witness ==
    Returned /\ ValidPeak /\ output_matrix[peak_row][peak_col] = nodata_value

EightNeighbours(p) ==
    { <<p[1] + d[1], p[2] + d[2]>> : d \in ((-1 .. 1) \X (-1 .. 1)) \ {<<0, 0>>} }

AboveThreshold(p) ==
    /\ p \in Cells(nrows, ncols)
    /\ matrix_data[p[1]][p[2]] # nodata_value
    /\ matrix_data[p[1]][p[2]] > matrix_data[peak_row][peak_col]

BorderOfHigherRegion ==
    { p \in Cells(nrows, ncols) :
        AboveThreshold(p) /\ \E q \in EightNeighbours(p) : ~AboveThreshold(q) }

\* C6: step 1 returns exactly the valid cells strictly above the peak value
\* that have, among their 8 neighbours, one outside the grid, no-data or not
\* above the peak value, each listed once; no cell equal to the threshold is
\* listed, and nothing is listed when no cell exceeds the threshold.
C6_BorderExtractionExact ==
    (pc = "classify" \/ (Returned /\ ValidPeak)) =>
        /\ BorderCells = BorderOfHigherRegion
        /\ Len(higher_border_cells) = Cardinality(BorderCells)
        /\ \A p \in BorderCells : matrix_data[p[1]][p[2]] # matrix_data[peak_row][peak_col]
        /\ (HigherCells = {}) => higher_border_cells = <<>>

\* the border is not empty and an interior higher cell is left out of it
C6_Witness ==
    /\ pc = "classify"
    /\ higher_border_cells # <<>>
    /\ \E p \in HigherCells : p \notin BorderCells

SameShape ==
    /\ DOMAIN output_matrix = Rows(nrows)
    /\ \A r \in Rows(nrows) : DOMAIN output_matrix[r] = Cols(ncols)
    /\ DOMAIN matrix_data = Rows(nrows)
    /\ \A r \in Rows(nrows) : DOMAIN matrix_data[r] = Cols(ncols)

C8_InvalidPeakExits ==
    (pc # "call") =>
        /\ (pc = "exit") <=> ~(peak_row \in Rows(nrows) /\ peak_col \in Cols(ncols))
        /\ (pc = "exit") => (exit_status = 1 /\ output_matrix = NoGrid)
        /\ (pc # "exit") => exit_status = 0

C8_Witness ==
    pc = "exit" /\ exit_status = 1 /\ peak_row < 0 /\ peak_col \in Cols(ncols)

\* the header lines of infile that set key: at least two tokens, the first the key
KeyLines(key) ==
    { i \in 1 .. HeaderLineCount :
        i <= Len(infile) /\ Len(infile[i]) >= 2 /\ infile[i][1] = Word(key) }

SixHeaderLines ==
    Len(infile) >= HeaderLineCount
    /\ \A i \in 1 .. HeaderLineCount : Len(infile[i]) >= 1

\* the lines of infile after the sixth
DataRowCount == Len(infile) - HeaderLineCount
DataRow(k) == infile[HeaderLineCount + k]

GridMatchesHeaderAndData ==
    /\ SixHeaderLines
    /\ \E i \in KeyLines("ncols") :
           infile[i][2].kind = "int" /\ infile[i][2].num = ncols
    /\ \E i \in KeyLines("nrows") :
           infile[i][2].kind = "int" /\ infile[i][2].num = nrows
    /\ \A i \in KeyLines("ncols") \cup KeyLines("nrows") : infile[i][2].kind = "int"
    /\ \A i \in KeyLines("NODATA_value") : infile[i][2].kind # "word"
    /\ ncols > 0
    /\ nrows > 0
    /\ DataRowCount = nrows
    /\ \A k \in 1 .. DataRowCount :
           /\ Len(DataRow(k)) = ncols
           /\ \A j \in 1 .. ncols : DataRow(k)[j].kind # "word"
    /\ DOMAIN matrix_data = Rows(nrows)
    /\ \A r \in Rows(nrows) : DOMAIN matrix_data[r] = Cols(ncols)

NoDataFromHeader ==
    \E i \in KeyLines("NODATA_value") :
        infile[i][2].kind # "word"
        /\ nodata_value = (IF infile[i][2].kind = "int"
                           THEN infile[i][2].num * Scale ELSE infile[i][2].num)

ReadAborted == pc = "exit" /\ exit_status = 1 /\ matrix_data = NoGrid

\* C9 (as claimed): read_ascii_matrix returns a grid only if the six header
\* lines hold the keys ncols, nrows and NODATA_value with parseable values,
\* ncols > 0, nrows > 0, there are nrows data rows and each has ncols entries;
\* otherwise the load aborts and no grid is returned.
C9_ReadNeedsAllThreeKeys ==
    /\ (pc = "loaded") => (GridMatchesHeaderAndData /\ NoDataFromHeader)
    /\ (pc = "exit") => ReadAborted

\* C9 (amended): as above for ncols and nrows; the NODATA_value key may be
\* missing, and the no-data value is then -9999.0.
C9_ReadNeedsDimensionKeys ==
    /\ (pc = "loaded") =>
           /\ GridMatchesHeaderAndData
           /\ NoDataFromHeader
                  \/ (KeyLines("NODATA_value") = {} /\ nodata_value = Num(-9999))
    /\ (pc = "exit") => ReadAborted

\* a file without a NODATA_value line is loaded
C9_Witness ==
    pc = "loaded" /\ KeyLines("NODATA_value") = {} /\ nodata_value = Num(-9999)

Distance(a, b) == IF a >= b THEN a - b ELSE b - a

\* C10: writing a grid and reading the file back succeeds and gives the same
\* ncols, nrows and no-data value, the cell values exactly for the integer
\* writer and within half a thousandth for the 3-decimal writer.
C10_RoundTrip ==
    (pc \in {"reread_int", "reread_3f"}) =>
        /\ readback.ok
        /\ readback.ncols = ncols
        /\ readback.nrows = nrows
        /\ readback.nodata_value = nodata_value
        /\ \A p \in Cells(nrows, ncols) :
               IF pc = "reread_int"
               THEN readback.matrix_data[p[1]][p[2]] = output_matrix[p[1]][p[2]]
               ELSE 2 * Distance(readback.matrix_data[p[1]][p[2]],
                                 output_matrix[p[1]][p[2]]) <= Milli

\* C11: for the grid [[5,5,5],[5,10,5],[5,5,5]] with no-data -9999 and peak
\* (1,1) the higher border is empty, the output is no-data at the centre and
\* -5 (dominated) at the 8 cells around it.
C11_ExampleAllDominated ==
    (Returned /\ matrix_data = ExampleGrid3x3 /\ nodata_value = ExampleNoData
       /\ Peak = <<1, 1>>) =>
        /\ higher_border_cells = <<>>
        /\ output_matrix[1][1] = ExampleNoData
        /\ \A p \in Cells(3, 3) \ {<<1, 1>>} : output_matrix[p[1]][p[2]] = Num(-5)

\* C12: for the grid [1,1,20,1,1] with no-data -9999 and peak (0,0) the higher
\* border is exactly {(0,2)}, the cells (0,3) and (0,4) are output as +1 (not
\* dominated) and the peak cell (0,0) as no-data.
C12_ExampleSplit ==
    ((pc = "classify" \/ Returned) /\ matrix_data = ExampleGrid1x5
       /\ nodata_value = ExampleNoData /\ Peak = <<0, 0>>) =>
        /\ higher_border_cells = << <<0, 2>> >>
        /\ Returned =>
               /\ output_matrix[0][3] = Num(1)
               /\ output_matrix[0][4] = Num(1)
               /\ output_matrix[0][0] = ExampleNoData

C12_Witness ==
    /\ Returned
    /\ matrix_data = ExampleGrid1x5
    /\ nodata_value = ExampleNoData
    /\ Peak = <<0, 0>>
    /\ output_matrix[0][3] = Num(1)
    /\ output_matrix[0][1] = Num(-1)

RowsDisjoint == RowIds(output_rows) \cap RowIds(matrix_rows) = {}

\* C13: no step of calculate_peak_dominance (return, no-data-peak return or
\* exit on an invalid peak) changes a cell or a row list of matrix_data, and
\* the returned grid has nrows row lists of its own, none of them a row list
\* of the input.
C13_InputNotMutated ==
    /\ [][matrix_data' = matrix_data /\ matrix_rows' = matrix_rows]_vars
    /\ [](RowsDisjoint
          /\ (Returned => Cardinality(RowIds(output_rows)) = nrows)
          /\ (pc = "exit" => output_rows = <<>>))

C13_Witness ==
    /\ Returned
    /\ nrows >= 2
    /\ Cardinality(RowIds(output_rows)) = nrows
    /\ \E p \in Cells(nrows, ncols) : output_matrix[p[1]][p[2]] # matrix_data[p[1]][p[2]]

\* the whole file of a grid of nrows rows and ncols columns
OutputComplete ==
    /\ Len(outfile) = HeaderLineCount + nrows
    /\ \A k \in 1 .. nrows : Len(outfile[HeaderLineCount + k]) = ncols

PeakInsideGrid == peak_row \in Rows(nrows) /\ peak_col \in Cols(ncols)

RunFailed == pc = "exit" /\ exit_status = 1 /\ outfile = NoFile

\* C14: in a run of the dominance tool a file is written only after the load,
\* the peak validation and the classification of every cell succeeded, and
\* then it is the whole grid; a run that ended in failure (status 1) wrote
\* nothing; a file that does not load and a peak outside the loaded grid each
\* lead to such an end.
C14_NoOutputOnError ==
    /\ [](/\ (outfile # NoFile) =>
                 /\ pc = "done"
                 /\ exit_status = 0
                 /\ GridMatchesHeaderAndData
                 /\ PeakInsideGrid
                 /\ SameShape
                 /\ OutputComplete
          /\ (pc = "exit") => RunFailed
          /\ (pc = "done") => outfile # NoFile)
    /\ (pc = "read" /\ ~read_ascii_matrix(infile).ok) ~> RunFailed
    /\ (pc = "loaded" /\ ~PeakInsideGrid) ~> RunFailed

\* the load succeeded, the peak -1 passed the indexing of line 266 and the
\* validation ended the run
C14_Witness ==
    /\ RunFailed
    /\ matrix_data # NoGrid
    /\ peak_row = -1
    /\ peak_col \in Cols(ncols)

Combined == pc = "combined"

\* C15: combine_matrices on two grids of equal shape returns a grid of that
\* shape, with the no-data value of the first grid, whose cell (r,c) is
\* matrix1[r][c] if matrix2[r][c] is not the second grid's no-data value and
\* the first grid's no-data value otherwise; no step changes an input grid.
C15_CombineMasks ==
    /\ [](Combined =>
             /\ SameShape
             /\ returned_header.ncols = ncols
             /\ returned_header.nrows = nrows
             /\ returned_header.nodata_value = nodata_value
             /\ \A p \in Cells(nrows, ncols) :
                    output_matrix[p[1]][p[2]] =
                        IF matrix2_data[p[1]][p[2]] # nodata_value2
                        THEN matrix_data[p[1]][p[2]] ELSE nodata_value
             /\ RowsDisjoint)
    /\ [][matrix_data' = matrix_data /\ matrix2_data' = matrix2_data]_vars

\* a cell of the second grid holds the first grid's no-data value and is
\* valid there, another is masked
C15_Witness ==
    /\ Combined
    /\ nodata_value # nodata_value2
    /\ \E p \in Cells(nrows, ncols) :
           /\ matrix2_data[p[1]][p[2]] = nodata_value
           /\ output_matrix[p[1]][p[2]] = matrix_data[p[1]][p[2]]
           /\ matrix_data[p[1]][p[2]] # nodata_value
    /\ \E p \in Cells(nrows, ncols) :
           /\ matrix2_data[p[1]][p[2]] = nodata_value2
           /\ matrix_data[p[1]][p[2]] # nodata_value
           /\ output_matrix[p[1]][p[2]] = nodata_value

\* C16: combine_matrices ends in exit(1) without a combined grid exactly when
\* the two grids differ in the number of columns or of rows.
C16_MismatchExits ==
    (pc # "combine") =>
        /\ (pc = "exit") <=> (ncols # ncols2 \/ nrows # nrows2)
        /\ (pc = "exit") => (exit_status = 1 /\ output_matrix = NoGrid
                               /\ returned_header = NoHeader)
        /\ (pc # "exit") => (exit_status = 0 /\ output_matrix # NoGrid)

\* same number of cells, different shape
C16_Witness ==
    /\ pc = "exit"
    /\ exit_status = 1
    /\ ncols * nrows = ncols2 * nrows2
    /\ ncols # ncols2

\* the cells of the factor x factor block (r, c) of the input
BlockOf(r, c) ==
    { <<i, j>> \in Cells(nrows, ncols) :
        /\ r * factor.num <= i /\ i < (r + 1) * factor.num
        /\ c * factor.num <= j /\ j < (c + 1) * factor.num }

ValidOf(S) == { p \in S : matrix_data[p[1]][p[2]] # nodata_value }

RECURSIVE SumOf(_)
SumOf(S) ==
    IF S = {} THEN 0
    ELSE LET p == CHOOSE x \in S : TRUE
         IN  matrix_data[p[1]][p[2]] + SumOf(S \ {p})

\* C17: downsample_matrix with a valid factor returns nrows div factor rows
\* and ncols div factor columns; each cell is the average of the cells of its
\* block that are not no-data, and no-data when the block has none.
C17_BlockAverage ==
    (pc = "downsampled") =>
        /\ returned_header.nrows = nrows \div factor.num
        /\ returned_header.ncols = ncols \div factor.num
        /\ DOMAIN output_matrix = Rows(nrows \div factor.num)
        /\ \A r \in Rows(nrows \div factor.num) :
               /\ DOMAIN output_matrix[r] = Cols(ncols \div factor.num)
               /\ \A c \in Cols(ncols \div factor.num) :
                      LET valid == ValidOf(BlockOf(r, c))
                      IN  IF valid = {}
                          THEN output_matrix[r][c] = nodata_value
                          ELSE output_matrix[r][c] * Cardinality(valid) = SumOf(valid)

\* the colour map_value_to_color gives a no-data cell
SentinelColour == <<255, 255, 255>>

\* C18: the image has one pixel per cell; every no-data cell is rendered with
\* the one sentinel colour, whatever the grid (a grid of no-data cells only
\* included), and no valid cell is rendered with it.
C18_NoDataSentinelColour ==
    (pc = "imaged") =>
        /\ image.size = <<ncols, nrows>>
        /\ \A p \in Cells(nrows, ncols) :
               (matrix_data[p[1]][p[2]] = nodata_value)
                   <=> (image.pixels[p[2]][p[1]] = SentinelColour)

\* C19: the grid has one cell per pixel (nrows the height, ncols the width of
\* the image); a cell is the no-data value if its pixel has alpha 0 and 1
\* otherwise; an image without an alpha channel gives a grid of 1s only.
C19_TransparentIsNoData ==
    (pc = "converted") =>
        /\ nrows = image.size[2]
        /\ ncols = image.size[1]
        /\ DOMAIN output_matrix = Rows(nrows)
        /\ \A p \in Cells(nrows, ncols) :
               output_matrix[p[1]][p[2]] =
                   IF image.mode = "RGBA" /\ image.pixels[p[2]][p[1]][4] = 0
                   THEN nodata_value ELSE Num(1)

\* the classified cells with a border cell at exactly the distance of the peak
\* and none strictly closer
TieCells ==
    { p \in ClassifiedCells :
        /\ \E b \in BorderCells : euclidean_distance(p, b) = euclidean_distance(p, Peak)
        /\ ~(\E b \in BorderCells : CloserThanPeak(p, b)) }

\* C20: ties go to the peak: a valid non-peak cell with a higher border cell
\* at exactly its distance to the peak and none strictly closer is output as
\* dominated; a cell compared with a border is output as not dominated only
\* if some border cell is strictly closer than the peak.
C20_TiesGoToPeak ==
    (Returned /\ ValidPeak) =>
        /\ \A p \in TieCells : OutputIsDominated(p)
        /\ \A p \in ClassifiedCells :
               (higher_border_cells # <<>> /\ OutputIsNotDominated(p))
                   => \E b \in BorderCells : CloserThanPeak(p, b)

C20_Witness ==
    /\ Returned
    /\ ValidPeak
    /\ \E p \in TieCells : OutputIsDominated(p)
    /\ \E p \in ClassifiedCells : OutputIsNotDominated(p)

\* border sets of at most MaxOrderCheck cells are compared in every order
MaxOrderCheck == 3

Rotations(s) ==
    { [i \in 1 .. Len(s) |-> s[((i + k - 1) % Len(s)) + 1]] : k \in 0 .. Len(s) - 1 }

\* the enumeration orders of the border set the result is compared under:
\* all of them for a small set; for a larger one the ascending order with
\* its rotations, so that every cell is scanned first and last, and the
\* reverse order
ScanOrders ==
    IF Cardinality(BorderCells) <= MaxOrderCheck
    THEN Orderings(BorderCells)
    ELSE Rotations(Ascending(BorderCells)) \cup {Reverse(Ascending(BorderCells))}

\* C21: for the same grid and peak the output grid does not depend on the
\* order in which list(higher_border_cells) enumerates the border set: the
\* grid returned is the grid every other enumeration order gives.
C21_OrderIndependent ==
    (Returned /\ ValidPeak) =>
        \A s \in ScanOrders :
            output_matrix = ClassifyAll(matrix_data, ncols, nrows, nodata_value,
                                        peak_row, peak_col, s)

\* a cell with a closer border cell and one that is not closer, so that the
\* scan ends early in one order and late in another
C21_Witness ==
    /\ Returned
    /\ ValidPeak
    /\ Cardinality(BorderCells) >= 3
    /\ Cardinality(BorderCells) <= MaxOrderCheck
    /\ \E p \in ClassifiedCells :
           /\ \E b \in BorderCells : CloserThanPeak(p, b)
           /\ \E b \in BorderCells : ~CloserThanPeak(p, b)
           /\ OutputIsNotDominated(p)

\* C22: an output cell is the no-data value if and only if the input cell is
\* no-data or the cell is the peak; no valid non-peak cell is written as the
\* no-data value.
C22_SentinelOnlyForNoDataOrPeak ==
    Returned =>
        \A p \in Cells(nrows, ncols) :
            (output_matrix[p[1]][p[2]] = nodata_value)
                <=> (matrix_data[p[1]][p[2]] = nodata_value \/ p = Peak)

====
